---- MODULE Spec2Model ----
(***************************************************************************)
(* Model of the Maven helper scripts of the Dagger build:                  *)
(*   util/maven/xml_formatting.py   (maven_dependency_xml, generate_pom)   *)
(*   util/maven/workspace_parser.py (WorkspaceVisitor, maven_artifacts)    *)
(*   util/maven/generate_poms.py    (pom_deps, comparator, main)           *)
(*   tools/maven_sha1_test.py       (WorkspaceVisitor, MavenSha1Test)      *)
(*                                                                         *)
(* Python strings are TLA+ strings; they are taken apart with Len and      *)
(* SubSeq, so split, count, startswith and the byte-wise comparison of     *)
(* Python 2 str are computed character by character.                       *)
(***************************************************************************)
EXTENDS Integers, Sequences, FiniteSets, TLC

VARIABLES
  \* ---- generate_poms.py: main ------------------------------------------
  argv_targets,     \* sys.argv[2:], the requested targets
  version,          \* sys.argv[1] (also the version argument of generate_pom)
  workspace,        \* the maven_jar declarations of the WORKSPACE file
  build_graph,      \* the build graph bazel query answers from: its edges
  artifacts,        \* main's artifacts dict (label -> coordinate or None)
  pos,              \* index into argv_targets of the target being processed
  status,           \* "start" | "running" | "done" | "usage" | "failed"
  error,            \* name of the exception that ended the run ("" if none)
  files,            \* the directory: file name -> the chunks written to it
  pom_file,         \* name of the file opened by the last loop iteration
  \* ---- generate_poms.py: pom_deps, one recursion step at a time ---------
  w_target,         \* label pom_deps was called with
  w_stack,          \* the Python call stack of pom_deps frames
  w_pc,             \* "call" | "walking" | "returned" | "overflow"
  w_result,         \* the set pom_deps returned
  \* ---- workspace_parser.py: maven_artifacts ----------------------------
  p_index,          \* number of statements of the file visited so far
  p_artifacts,      \* WorkspaceVisitor.artifacts
  p_pc,             \* "visiting" | "returned"
  \* ---- maven_sha1_test.py: test_each_maven_jar_rule_has_sha1 -----------
  s_index,          \* number of statements of the file visited so far
  missing_sha1,     \* WorkspaceVisitor.missing_sha1
  s_pc,             \* "visiting" | "passed" | "failed" | "error"
  s_message,        \* the message handed to self.fail
  \* ---- xml_formatting.py called on its own ------------------------------
  artifact_string,  \* first argument of generate_pom / maven_dependency_xml
  metadata,         \* second argument of generate_pom
  deps,             \* third argument of generate_pom
  x_pc,             \* "input" | "pom" | "dependency"
  x_out             \* what the call returned or raised

mainVars  == <<argv_targets, workspace, build_graph, artifacts,
               pos, status, error, files, pom_file>>
walkVars  == <<w_target, w_stack, w_pc, w_result>>
parseVars == <<p_index, p_artifacts, p_pc>>
sha1Vars  == <<s_index, missing_sha1, s_pc, s_message>>
xmlVars   == <<artifact_string, metadata, deps, x_pc, x_out>>
vars      == <<mainVars, walkVars, parseVars, sha1Vars, xmlVars, version>>

-----------------------------------------------------------------------------
(* Bounds of the model *)

\* longest deps list handed to generate_pom on its own
MaxDeps == 2

\* most call statements in a WORKSPACE file
MaxStatements == 2

\* most edges of a build graph main runs on
MaxEdges == 2

\* most edges of a build graph pom_deps is stepped through
MaxWalkEdges == 3

\* most targets on the command line
MaxTargets == 2

\* most nested pom_deps frames the interpreter allows before it raises
\* RuntimeError (sys.getrecursionlimit() of CPython, scaled to the graphs)
RecursionLimit == 5

-----------------------------------------------------------------------------
(* Python values *)

\* Python's None, kept apart from every coordinate and name
None == "<None>"

\* a call that returned value v
Returned(v) == [err |-> "", val |-> v]

\* a call that raised the exception named e
Raised(e) == [err |-> e, val |-> <<>>]

\* the characters that occur in labels and coordinates, in ASCII order
Alphabet == "$-./0123456789:@_abcdefghijklmnopqrstuvwxyz{}"

\* the rank of a one-character string in ASCII order
Ord(c) == CHOOSE i \in 1..Len(Alphabet) : SubSeq(Alphabet, i, i) = c

\* s[i] of Python (1-based here)
CharAt(s, i) == SubSeq(s, i, i)

\* str.startswith(prefix)
StartsWith(s, prefix) ==
  /\ Len(s) >= Len(prefix)
  /\ SubSeq(s, 1, Len(prefix)) = prefix

\* str.count(':')
CountColons(s) == Cardinality({i \in 1..Len(s) : CharAt(s, i) = ":"})

\* the fields of s from position i on, the current field starting at start
RECURSIVE SplitFrom(_, _, _)
SplitFrom(s, start, i) ==
  IF i > Len(s) THEN <<SubSeq(s, start, Len(s))>>
  ELSE IF CharAt(s, i) = ":"
  THEN <<SubSeq(s, start, i - 1)>> \o SplitFrom(s, i + 1, i + 1)
  ELSE SplitFrom(s, start, i + 1)

\* str.split(':'): the fields between the colons, empty fields kept
Split(s) == SplitFrom(s, 1, 1)

\* a < b decided from position i on, the characters before it being equal
RECURSIVE StrLessFrom(_, _, _)
StrLessFrom(a, b, i) ==
  IF i > Len(a) THEN i <= Len(b)
  ELSE IF i > Len(b) THEN FALSE
  ELSE IF CharAt(a, i) = CharAt(b, i) THEN StrLessFrom(a, b, i + 1)
  ELSE Ord(CharAt(a, i)) < Ord(CharAt(b, i))

\* a < b on Python 2 str: byte-wise, a proper prefix is smaller
StrLess(a, b) == StrLessFrom(a, b, 1)

\* a < b on Python lists of str: element-wise, a proper prefix is smaller
RECURSIVE ListLess(_, _)
ListLess(a, b) ==
  IF a = <<>> THEN b # <<>>
  ELSE IF b = <<>> THEN FALSE
  ELSE IF Head(a) = Head(b) THEN ListLess(Tail(a), Tail(b))
  ELSE StrLess(Head(a), Head(b))

\* dict.get(key, default) on a record
Get(record, key, default) ==
  IF key \in DOMAIN record THEN record[key] ELSE default

\* the sequences over S of length at most n
SeqsUpTo(S, n) == UNION {[1..k -> S] : k \in 0..n}

-----------------------------------------------------------------------------
(* xml_formatting.py *)

\* the %s slots of DEP_BLOCK, by the element each one fills
DEP_BLOCK == <<"groupId", "artifactId", "version">>

\* the %s slots of CLASSIFIER_DEP_BLOCK
CLASSIFIER_DEP_BLOCK ==
  <<"groupId", "artifactId", "version", "type", "classifier">>

\* format_string % tuple(args): one argument per %s, else TypeError
PercentFormat(format_string, args) ==
  IF Len(args) # Len(format_string) THEN Raised("TypeError")
  ELSE Returned([i \in 1..Len(format_string) |->
                   [tag |-> format_string[i], text |-> args[i]]])

\* maven_dependency_xml: the <dependency> block of one coordinate. The
\* indentation of the block's lines is left out.
maven_dependency_xml(coordinate) ==
  IF coordinate = None THEN Raised("AttributeError")
  ELSE LET format_string == IF CountColons(coordinate) = 2
                            THEN DEP_BLOCK
                            ELSE CLASSIFIER_DEP_BLOCK
       IN  PercentFormat(format_string, Split(coordinate))

\* line 108 with the version argument left as it was passed
UnpackKeepsVersionArgument(coordinate, version_arg) ==
  LET fields == Split(coordinate)
  IN  [group |-> fields[1], artifact |-> fields[2], version |-> version_arg]

\* group, artifact, version = artifact_string.split(':') of generate_pom,
\* for a coordinate of three fields: the third field rebinds the name
\* version, whatever was passed as the version argument
UnpackCoordinate(coordinate, version_arg) ==
  LET fields == Split(coordinate)
  IN  [group |-> fields[1], artifact |-> fields[2], version |-> fields[3]]

\* generate_pom: the fields substituted into POM_OUTLINE, or the exception
\* of the unpacking (ValueError) or of the first block that does not render
generate_pom(coordinate, meta, dep_list, version_arg) ==
  LET own    == UnpackCoordinate(coordinate, version_arg)
      all    == dep_list \o Get(meta, "manual_dependencies", <<>>)
      blocks == [i \in 1..Len(all) |-> maven_dependency_xml(all[i])]
      bad    == {i \in 1..Len(all) : blocks[i].err # ""}
  IN  IF Len(Split(coordinate)) # 3 THEN Raised("ValueError")
      ELSE IF bad # {}
      THEN Raised(blocks[CHOOSE i \in bad : \A j \in bad : i <= j].err)
      ELSE Returned([group     |-> own.group,
                     artifact  |-> own.artifact,
                     name      |-> meta["name"],
                     version   |-> own.version,
                     packaging |-> Get(meta, "packaging", "jar"),
                     deps      |-> [i \in 1..Len(all) |-> blocks[i].val]])

-----------------------------------------------------------------------------
(* generate_poms.py: static configuration *)

GROUP == "com.google.dagger"

METADATA ==
  ("//java/dagger:core" :>
      [name |-> "Dagger", artifact |-> "dagger"]) @@
  ("//gwt:gwt" :>
      [name |-> "Dagger GWT", artifact |-> "dagger-gwt",
       manual_dependencies |->
         <<"com.google.dagger:dagger:${project.version}",
           "com.google.dagger:dagger:${project.version}:jar:sources",
           "javax.inject:javax.inject:1:jar:sources">>]) @@
  ("//java/dagger/internal/codegen:codegen" :>
      [name |-> "Dagger Compiler", artifact |-> "dagger-compiler"]) @@
  ("//java/dagger/producers:producers" :>
      [name |-> "Dagger Producers", artifact |-> "dagger-producers"]) @@
  ("//java/dagger/android:android" :>
      [name |-> "Dagger Android", artifact |-> "dagger-android",
       packaging |-> "aar"]) @@
  ("//java/dagger/android/support:support" :>
      [name |-> "Dagger Android Support",
       artifact |-> "dagger-android-support", packaging |-> "aar"]) @@
  ("//java/dagger/android/processor:processor" :>
      [name |-> "Dagger Android Processor",
       artifact |-> "dagger-android-processor"]) @@
  ("//java/dagger/grpc/server:server" :>
      [name |-> "Dagger gRPC Server", artifact |-> "dagger-grpc-server"]) @@
  ("//java/dagger/grpc/server:annotations" :>
      [name |-> "Dagger gRPC Server annotations",
       artifact |-> "dagger-grpc-server-annotations"]) @@
  ("//java/dagger/grpc/server/processor:processor" :>
      [name |-> "Dagger gRPC Server processor",
       artifact |-> "dagger-grpc-server-processor"]) @@
  ("//java/dagger/android:libandroid.jar" :>
      [name |-> "Dagger Android (Jar Impl)",
       artifact |-> "dagger-android-jarimpl"]) @@
  ("//java/dagger/android/support:libsupport.jar" :>
      [name |-> "Dagger Android Support (Jar Impl)",
       artifact |-> "dagger-android-support-jarimpl"])

\* 'com.google.dagger:%s:%s' % (metadata['artifact'], version)
OwnCoordinate(meta, version_arg) ==
  "com.google.dagger:" \o meta["artifact"] \o ":" \o version_arg

-----------------------------------------------------------------------------
(* generate_poms.py: the build graph queries and pom_deps *)

\* an edge of the build graph: kind "deps" or "exports"
Edge(kind, from, to) == <<kind, from, to>>

\* deps_of: the labels the deps query prints for label (the query itself
\* leaves out what is tagged maven:compile_only or maven:shaded)
deps_of(label) ==
  {e[3] : e \in {f \in build_graph : f[1] = "deps" /\ f[2] = label}}

\* exports_for: the labels the exports query prints for label
exports_for(label) ==
  {e[3] : e \in {f \in build_graph : f[1] = "exports" /\ f[2] = label}}

\* dep.startswith("@local_jdk//:")
IsLocalJdk(dep) == StartsWith(dep, "@local_jdk//:")

\* the alias test with the '//third_party:' prefix forgotten
IsAliasRootOnly(dep) == StartsWith(dep, "//:")

\* dep.startswith(('//:', '//third_party:'))
IsAlias(dep) == StartsWith(dep, "//:") \/ StartsWith(dep, "//third_party:")

\* pom_deps(label) as frame number depth of the recursion: the accumulated
\* set, or RuntimeError once the interpreter's recursion limit is passed
RECURSIVE pom_deps_frame(_, _)
pom_deps_frame(label, depth) ==
  IF depth > RecursionLimit THEN Raised("RuntimeError")
  ELSE
    LET walked   == {d \in deps_of(label) : ~IsLocalJdk(d)}
        direct   == {d \in walked : ~IsAlias(d)}
        exported == UNION {exports_for(d) : d \in {a \in walked : IsAlias(a)}}
        below    == [e \in exported |-> pom_deps_frame(e, depth + 1)]
    IN  IF \E e \in exported : below[e].err # ""
        THEN Raised("RuntimeError")
        ELSE Returned(direct \cup exported
                        \cup UNION {below[e].val : e \in exported})

pom_deps(label) == pom_deps_frame(label, 1)

\* a frame of pom_deps: its argument, the deps not yet iterated, the exports
\* of the current alias dep not yet iterated, and accumulated_deps
Frame(label) ==
  [label |-> label, deps |-> deps_of(label), exports |-> {}, acc |-> {}]

\* the stack with its top frame replaced
WithTop(stack, frame) == [stack EXCEPT ![Len(stack)] = frame]

-----------------------------------------------------------------------------
(* The WORKSPACE file as ast.parse hands it to the visitors: the top-level  *)
(* call statements in file order, each with the called name and its        *)
(* keyword arguments in source order.                                      *)

\* a keyword argument with a literal string value (keyword.arg, keyword.value.s)
Kw(arg, value) == [arg |-> arg, value |-> value]

\* a call statement (rule.func.id, rule.keywords)
Call(func, keywords) == [func |-> func, keywords |-> keywords]

\* '%s' % v
Str(v) == IF v = None THEN "None" ELSE v

\* separator.join(list) on a list of str
RECURSIVE Join(_, _)
Join(separator, list) ==
  IF Len(list) = 0 THEN ""
  ELSE IF Len(list) = 1 THEN list[1]
  ELSE list[1] \o separator \o Join(separator, Tail(list))

\* d[key] = value on a dict
DictSet(d, key, value) ==
  [k \in DOMAIN d \cup {key} |-> IF k = key THEN value ELSE d[k]]

\* the empty dict
EmptyDict == [k \in {} |-> None]

-----------------------------------------------------------------------------
(* workspace_parser.py *)

\* the for loop of visit_Call over rule.keywords: the value the local
\* variable named arg holds after the loop, None when no keyword sets it
RECURSIVE KeywordLoop(_, _, _)
KeywordLoop(keywords, arg, value) ==
  IF keywords = <<>> THEN value
  ELSE KeywordLoop(Tail(keywords), arg,
                   IF Head(keywords).arg = arg THEN Head(keywords).value
                   ELSE value)

\* WorkspaceVisitor.visit_Call: the artifacts dict after visiting rule.
\* `is not` on the interned identifier strings of CPython is inequality.
visit_Call(dict, rule) ==
  IF rule.func # "maven_jar" THEN dict
  ELSE LET name     == KeywordLoop(rule.keywords, "name", None)
           artifact == KeywordLoop(rule.keywords, "artifact", None)
       IN  DictSet(dict, "@" \o Str(name) \o "//jar:jar", artifact)

\* maven_artifacts: visit every statement of the file, return the dict
RECURSIVE VisitAll(_, _)
VisitAll(dict, statements) ==
  IF statements = <<>> THEN dict
  ELSE VisitAll(visit_Call(dict, Head(statements)), Tail(statements))

maven_artifacts(file) == VisitAll(EmptyDict, file)

-----------------------------------------------------------------------------
(* maven_sha1_test.py *)

\* the for loop of visit_Call over rule.keywords from position i on, name
\* being the local variable: returns at the first sha1 keyword, appends the
\* name after the loop
RECURSIVE Sha1Loop(_, _, _, _)
Sha1Loop(missing, keywords, i, name) ==
  IF i > Len(keywords) THEN Append(missing, name)
  ELSE IF keywords[i].arg = "sha1" THEN missing
  ELSE Sha1Loop(missing, keywords, i + 1,
                IF keywords[i].arg = "name" THEN keywords[i].value ELSE name)

\* the same loop leaving at the name keyword: a sha1 keyword that follows
\* the name is not seen
RECURSIVE Sha1LoopStopsAtName(_, _, _, _)
Sha1LoopStopsAtName(missing, keywords, i, name) ==
  IF i > Len(keywords) THEN Append(missing, name)
  ELSE IF keywords[i].arg = "sha1" THEN missing
  ELSE IF keywords[i].arg = "name" THEN Append(missing, keywords[i].value)
  ELSE Sha1LoopStopsAtName(missing, keywords, i + 1, name)

Sha1VisitStopsAtName(missing, rule) ==
  IF rule.func = "maven_jar"
  THEN Sha1LoopStopsAtName(missing, rule.keywords, 1, None)
  ELSE missing

\* WorkspaceVisitor.visit_Call of the test: missing_sha1 after visiting rule
sha1_visit_Call(missing, rule) ==
  IF rule.func = "maven_jar"
  THEN Sha1Loop(missing, rule.keywords, 1, None)
  ELSE missing

\* the end of test_each_maven_jar_rule_has_sha1: pass, or fail with the
\* message; joining a None raises TypeError
Sha1Verdict(missing) ==
  IF Len(missing) = 0 THEN [pc |-> "passed", message |-> ""]
  ELSE IF \E i \in 1..Len(missing) : missing[i] = None
  THEN [pc |-> "error", message |-> "TypeError"]
  ELSE [pc |-> "failed",
        message |-> Join(", ", missing) \o " did not specify a sha1"]

-----------------------------------------------------------------------------
(* generate_poms.py: artifact resolution and the ordering of dependencies *)

\* the character classes of android_sdk_pattern
LowerDotDash   == "abcdefghijklmnopqrstuvwxyz.-"
LowerDigitDash == "abcdefghijklmnopqrstuvwxyz0123456789-"
DigitDot       == "0123456789."

\* c is a character of the class
InClass(c, class) == \E i \in 1..Len(class) : CharAt(class, i) = c

\* the position after the longest run of class characters of s from start
RunEnd(s, start, class) ==
  CHOOSE e \in start..(Len(s) + 1) :
    /\ \A i \in start..(e - 1) : InClass(CharAt(s, i), class)
    /\ e <= Len(s) => ~InClass(CharAt(s, e), class)

\* android_sdk_pattern.match(label) for
\* r'@androidsdk//([a-z.-]*):([a-z0-9-]*)-([0-9.]*)': the three groups, or
\* <<>> when there is no match. The greedy second group gives back
\* characters up to the last '-' of its run.
AndroidSdkGroups(label) ==
  LET prefix == "@androidsdk//"
      p1     == Len(prefix) + 1
      e1     == RunEnd(label, p1, LowerDotDash)
      p2     == e1 + 1
      e2     == RunEnd(label, p2, LowerDigitDash)
      dashes == {i \in p2..(e2 - 1) : CharAt(label, i) = "-"}
      dash   == CHOOSE i \in dashes : \A j \in dashes : j <= i
      e3     == RunEnd(label, dash + 1, DigitDot)
  IN  IF ~StartsWith(label, prefix) THEN <<>>
      ELSE IF e1 > Len(label) \/ CharAt(label, e1) # ":" THEN <<>>
      ELSE IF dashes = {} THEN <<>>
      ELSE <<SubSeq(label, p1, e1 - 1), SubSeq(label, p2, dash - 1),
             SubSeq(label, dash + 1, e3 - 1)>>

\* artifact_for_dep of main, over main's artifacts dict
artifact_for_dep(dict, label) ==
  IF label \in DOMAIN dict THEN Returned(dict[label])
  ELSE IF AndroidSdkGroups(label) # <<>>
  THEN Returned(Join(":", AndroidSdkGroups(label)))
  ELSE Raised("UnknownDependencyException")

\* the comparator without the two tests that put GROUP first
ComparatorWithoutGroup(first, second) ==
  IF first = second THEN 0
  ELSE IF ListLess(Split(first), Split(second)) THEN -1 ELSE 1

\* dependencies_comparator
dependencies_comparator(first, second) ==
  IF first = second THEN 0
  ELSE LET f == Split(first)
           g == Split(second)
       IN  IF f[1] = GROUP /\ g[1] # GROUP THEN -1
           ELSE IF g[1] = GROUP /\ f[1] # GROUP THEN 1
           ELSE IF ListLess(f, g) THEN -1
           ELSE 1

\* a sorted list with x put after the last element not greater than it
RECURSIVE Insert(_, _)
Insert(sorted, x) ==
  IF sorted = <<>> THEN <<x>>
  ELSE IF dependencies_comparator(sorted[Len(sorted)], x) <= 0
  THEN Append(sorted, x)
  ELSE Append(Insert(SubSeq(sorted, 1, Len(sorted) - 1), x),
              sorted[Len(sorted)])

\* deps.sort(cmp=dependencies_comparator): a stable sort; the comparator
\* raises AttributeError when it splits a None that it is given together
\* with another value
RECURSIVE SortFrom(_, _)
SortFrom(sorted, rest) ==
  IF rest = <<>> THEN sorted
  ELSE SortFrom(Insert(sorted, Head(rest)), Tail(rest))

sort(list) ==
  IF \E i, j \in 1..Len(list) : list[i] = None /\ list[j] # None
  THEN Raised("AttributeError")
  ELSE IF \A i \in 1..Len(list) : list[i] = None THEN Returned(list)
  ELSE Returned(SortFrom(<<>>, list))

\* the elements of a set in the order the interpreter iterates them
RECURSIVE IterationOrder(_)
IterationOrder(set) ==
  IF set = {} THEN <<>>
  ELSE LET x == CHOOSE y \in set : TRUE
       IN  <<x>> \o IterationOrder(set \ {x})

\* map(artifact_for_dep, labels): the coordinates, or the exception of the
\* first label that does not resolve
MapArtifactForDep(dict, labels) ==
  LET order == IterationOrder(labels)
      each  == [i \in 1..Len(order) |-> artifact_for_dep(dict, order[i])]
  IN  IF \E i \in 1..Len(order) : each[i].err # ""
      THEN Raised("UnknownDependencyException")
      ELSE Returned([i \in 1..Len(order) |-> each[i].val])

\* the artifacts dict of main: the parsed WORKSPACE, then one entry per
\* METADATA label
MainArtifacts(file, version_arg) ==
  LET parsed == maven_artifacts(file)
  IN  [label \in DOMAIN parsed \cup DOMAIN METADATA |->
         IF label \in DOMAIN METADATA
         THEN OwnCoordinate(METADATA[label], version_arg)
         ELSE parsed[label]]

\* '%s.pom.xml' % metadata['artifact']
PomFileName(meta) == meta["artifact"] \o ".pom.xml"

\* open(name, 'w'): the file exists and is empty
OpenForWriting(directory, name) == DictSet(directory, name, <<>>)

\* pom_file.write(text), flushed when the with block closes the file
WriteTo(directory, name, text) ==
  DictSet(directory, name, Append(directory[name], text))

\* the body of the with statement for target arg, after the file is opened:
\* the descriptor text, or the exception that leaves the with block
PomText(dict, arg, version_arg, shell_ok) ==
  LET closure == pom_deps(arg)
      mapped  == MapArtifactForDep(dict, closure.val)
      sorted  == sort(mapped.val)
  IN  IF ~shell_ok THEN Raised("CalledProcessError")
      ELSE IF closure.err # "" THEN closure
      ELSE IF mapped.err # "" THEN mapped
      ELSE IF sorted.err # "" THEN sorted
      ELSE generate_pom(dict[arg], METADATA[arg], sorted.val, version_arg)

-----------------------------------------------------------------------------
(* Inputs *)

\* release versions given on the command line
Versions == {"1.0", "2.1"}

\* metadata records generate_pom is called with on its own
XmlMetadata ==
  {METADATA["//java/dagger:core"], METADATA["//gwt:gwt"],
   METADATA["//java/dagger/android:android"]}

\* coordinates of 3, 4 and 5 fields
XmlCoordinates ==
  {"com.google.dagger:dagger:1.0",
   "com.google.guava:guava:19.0",
   "javax.inject:javax.inject:1:jar",
   "javax.inject:javax.inject:1:jar:sources"}

\* statements a WORKSPACE file is made of. Every rule has its name, which
\* Bazel requires; artifact and sha1 are present or not, in either order.
Statements ==
  {Call("maven_jar", <<Kw("name", "guava"),
                       Kw("artifact", "com.google.guava:guava:19.0"),
                       Kw("sha1", "6ce200f6")>>),
   Call("maven_jar", <<Kw("sha1", "6975da39"),
                       Kw("name", "javax_inject"),
                       Kw("artifact", "javax.inject:javax.inject:1")>>),
   Call("maven_jar", <<Kw("name", "auto_common"),
                       Kw("artifact", "com.google.auto:auto-common:0.8")>>),
   Call("maven_jar", <<Kw("artifact", "com.google.auto.value:auto-value:1.4"),
                       Kw("name", "auto_value")>>),
   Call("maven_jar", <<Kw("name", "jsr250")>>),
   Call("maven_jar", <<Kw("name", "guava"), Kw("sha1", "6ce200f6")>>),
   Call("android_sdk_repository", <<Kw("name", "androidsdk")>>)}

\* labels of the build graphs
CoreTarget    == "//java/dagger:core"
GwtTarget     == "//gwt:gwt"
GuavaAlias    == "//third_party:guava"
LocalJdk      == "@local_jdk//:jdk"
GuavaJar      == "@guava//jar:jar"
GuavaJreJar   == "@guava_jre//jar:jar"
AutoCommonJar == "@auto_common//jar:jar"
AutoValueJar  == "@auto_value//jar:jar"
Jsr250Jar     == "@jsr250//jar:jar"
AndroidLabel  == "@androidsdk//com.android.support:appcompat-v7-25.0.0"
UnknownLabel  == "@bazel_tools//tools/jdk:langtools"

\* a label that is no key of METADATA
BogusTarget   == "//java/dagger:bogus"

\* targets named on the command line
MainTargets == {CoreTarget, GwtTarget, BogusTarget}

\* the WORKSPACE file main reads: two names declare the same artifact, one
\* declaration has no artifact
MainWorkspace ==
  <<Call("maven_jar", <<Kw("name", "guava"),
                        Kw("artifact", "com.google.guava:guava:19.0"),
                        Kw("sha1", "6ce200f6")>>),
    Call("maven_jar", <<Kw("name", "guava_jre"),
                        Kw("artifact", "com.google.guava:guava:19.0"),
                        Kw("sha1", "6ce200f6")>>),
    Call("maven_jar", <<Kw("name", "auto_common"),
                        Kw("artifact", "com.google.auto:auto-common:0.8")>>),
    Call("maven_jar", <<Kw("artifact", "com.google.auto.value:auto-value:1.4"),
                        Kw("name", "auto_value")>>),
    Call("maven_jar", <<Kw("name", "jsr250")>>)>>

\* the edges the build graphs of main are made of
MainEdges ==
  {Edge("deps", GwtTarget, CoreTarget),
   Edge("deps", GwtTarget, AutoCommonJar),
   Edge("deps", GwtTarget, AutoValueJar),
   Edge("deps", GwtTarget, AndroidLabel),
   Edge("deps", CoreTarget, GuavaJar),
   Edge("deps", CoreTarget, GuavaJreJar),
   Edge("deps", CoreTarget, UnknownLabel),
   Edge("deps", CoreTarget, Jsr250Jar),
   Edge("deps", CoreTarget, GuavaAlias),
   Edge("exports", GuavaAlias, GuavaJar)}

\* the edges the build graphs pom_deps is stepped through are made of
WalkEdges ==
  MainEdges \cup
  {Edge("deps", GwtTarget, GuavaAlias),
   Edge("deps", CoreTarget, LocalJdk),
   Edge("exports", GuavaAlias, LocalJdk),
   Edge("exports", GuavaAlias, CoreTarget)}

\* the build graphs of at most n of the given edges
BuildGraphs(edges, n) == {g \in SUBSET edges : Cardinality(g) <= n}

-----------------------------------------------------------------------------
(* Idle values of the parts a specification does not run *)

MainIdle ==
  /\ argv_targets = <<>>
  /\ artifacts = EmptyDict
  /\ pos = 0 /\ status = "idle" /\ error = "" /\ files = EmptyDict
  /\ pom_file = ""

WalkIdle ==
  /\ w_target = "" /\ w_stack = <<>> /\ w_pc = "idle" /\ w_result = {}

ParseIdle ==
  /\ p_index = 0 /\ p_artifacts = EmptyDict /\ p_pc = "idle"

Sha1Idle ==
  /\ s_index = 0 /\ missing_sha1 = <<>> /\ s_pc = "idle" /\ s_message = ""

XmlIdle ==
  /\ artifact_string = "" /\ metadata = <<>> /\ deps = <<>>
  /\ x_pc = "idle" /\ x_out = Returned(<<>>)

-----------------------------------------------------------------------------
(* Specification Spec: main of generate_poms.py, one target per step *)

Init ==
  /\ WalkIdle /\ ParseIdle /\ Sha1Idle /\ XmlIdle
  /\ version = "1.0"
  /\ argv_targets \in SeqsUpTo(MainTargets, MaxTargets)
  /\ workspace = MainWorkspace
  /\ build_graph \in BuildGraphs(MainEdges, MaxEdges)
  /\ artifacts = EmptyDict
  /\ pos = 0
  /\ status = "start"
  /\ error = ""
  /\ files = EmptyDict
  /\ pom_file = ""

MainUnchanged ==
  /\ UNCHANGED <<argv_targets, version, workspace, build_graph>>
  /\ UNCHANGED <<walkVars, parseVars, sha1Vars, xmlVars>>

\* len(sys.argv) < 3: the usage message and sys.exit(1)
MainUsage ==
  /\ status = "start"
  /\ Len(argv_targets) = 0
  /\ status' = "usage"
  /\ UNCHANGED <<artifacts, pos, error, files, pom_file>>
  /\ MainUnchanged

\* the WORKSPACE is parsed and the METADATA labels are added to artifacts
MainStart ==
  /\ status = "start"
  /\ Len(argv_targets) > 0
  /\ artifacts' = MainArtifacts(workspace, version)
  /\ status' = "running"
  /\ UNCHANGED <<pos, error, files, pom_file>>
  /\ MainUnchanged

\* one iteration of the loop over sys.argv[2:]. An exception ends the run;
\* the with statement closes the opened file on the way out. Each bazel
\* query may exit non-zero, which check_output turns into an exception.
ProcessTarget ==
  /\ status = "running"
  /\ pos < Len(argv_targets)
  /\ pos' = pos + 1
  /\ LET arg == argv_targets[pos + 1]
     IN  IF arg \notin DOMAIN METADATA
         THEN /\ status' = "failed"
              /\ error' = "KeyError"
              /\ UNCHANGED <<files, pom_file>>
         ELSE \E shell_ok \in BOOLEAN :
                LET name   == PomFileName(METADATA[arg])
                    opened == OpenForWriting(files, name)
                    text   == PomText(artifacts, arg, version, shell_ok)
                IN  /\ pom_file' = name
                    /\ error' = text.err
                    /\ IF text.err # ""
                       THEN /\ files' = opened
                            /\ status' = "failed"
                       ELSE /\ files' = WriteTo(opened, name, text.val)
                            /\ status' = IF pos + 1 = Len(argv_targets)
                                         THEN "done" ELSE "running"
  /\ UNCHANGED artifacts
  /\ MainUnchanged

Next == MainUsage \/ MainStart \/ ProcessTarget

Spec == Init /\ [][Next]_vars

-----------------------------------------------------------------------------
(* Specification SpecXml: generate_pom and maven_dependency_xml on their own *)

InitXml ==
  /\ MainIdle /\ WalkIdle /\ ParseIdle /\ Sha1Idle
  /\ workspace = <<>> /\ build_graph = {}
  /\ version \in Versions
  /\ metadata \in XmlMetadata
  /\ artifact_string \in
       {OwnCoordinate(metadata, version)} \cup XmlCoordinates
  /\ deps \in SeqsUpTo(XmlCoordinates, MaxDeps)
  /\ x_pc = "input"
  /\ x_out = Returned(<<>>)

\* a call generate_pom(artifact_string, metadata, deps, version)
CallGeneratePom ==
  /\ x_pc = "input"
  /\ x_pc' = "pom"
  /\ x_out' = generate_pom(artifact_string, metadata, deps, version)
  /\ UNCHANGED <<artifact_string, metadata, deps, version>>
  /\ UNCHANGED <<mainVars, walkVars, parseVars, sha1Vars>>

\* a call maven_dependency_xml(artifact_string)
CallMavenDependencyXml ==
  /\ x_pc = "input"
  /\ x_pc' = "dependency"
  /\ x_out' = maven_dependency_xml(artifact_string)
  /\ UNCHANGED <<artifact_string, metadata, deps, version>>
  /\ UNCHANGED <<mainVars, walkVars, parseVars, sha1Vars>>

NextXml == CallGeneratePom \/ CallMavenDependencyXml

SpecXml == InitXml /\ [][NextXml]_vars

-----------------------------------------------------------------------------
(* Specification SpecParser: maven_artifacts of workspace_parser.py, one     *)
(* visited statement per step                                              *)

InitParser ==
  /\ MainIdle /\ WalkIdle /\ Sha1Idle /\ XmlIdle
  /\ version = "1.0" /\ build_graph = {}
  /\ workspace \in SeqsUpTo(Statements, MaxStatements)
  /\ p_index = 0
  /\ p_artifacts = EmptyDict
  /\ p_pc = "visiting"

\* NodeVisitor.visit reaches the next call statement
ParserVisit ==
  /\ p_pc = "visiting"
  /\ p_index < Len(workspace)
  /\ p_index' = p_index + 1
  /\ p_artifacts' = visit_Call(p_artifacts, workspace[p_index + 1])
  /\ UNCHANGED <<p_pc, workspace, version>>
  /\ UNCHANGED <<argv_targets, build_graph, artifacts, pos,
                 status, error, files, pom_file>>
  /\ UNCHANGED <<walkVars, sha1Vars, xmlVars>>

\* maven_artifacts returns visitor.artifacts
ParserReturn ==
  /\ p_pc = "visiting"
  /\ p_index = Len(workspace)
  /\ p_pc' = "returned"
  /\ UNCHANGED <<p_index, p_artifacts, version>>
  /\ UNCHANGED <<mainVars, walkVars, sha1Vars, xmlVars>>

NextParser == ParserVisit \/ ParserReturn

SpecParser == InitParser /\ [][NextParser]_vars

-----------------------------------------------------------------------------
(* Specification SpecSha1: test_each_maven_jar_rule_has_sha1, one visited   *)
(* statement per step                                                      *)

InitSha1 ==
  /\ MainIdle /\ WalkIdle /\ ParseIdle /\ XmlIdle
  /\ version = "1.0" /\ build_graph = {}
  /\ workspace \in SeqsUpTo(Statements, MaxStatements)
  /\ s_index = 0
  /\ missing_sha1 = <<>>
  /\ s_pc = "visiting"
  /\ s_message = ""

\* NodeVisitor.visit reaches the next call statement
Sha1Visit ==
  /\ s_pc = "visiting"
  /\ s_index < Len(workspace)
  /\ s_index' = s_index + 1
  /\ missing_sha1' = sha1_visit_Call(missing_sha1, workspace[s_index + 1])
  /\ UNCHANGED <<s_pc, s_message, workspace, version>>
  /\ UNCHANGED <<argv_targets, build_graph, artifacts, pos,
                 status, error, files, pom_file>>
  /\ UNCHANGED <<walkVars, parseVars, xmlVars>>

\* the visit is over: the test passes or fails
Sha1Finish ==
  /\ s_pc = "visiting"
  /\ s_index = Len(workspace)
  /\ s_pc' = Sha1Verdict(missing_sha1).pc
  /\ s_message' = Sha1Verdict(missing_sha1).message
  /\ UNCHANGED <<s_index, missing_sha1, version>>
  /\ UNCHANGED <<mainVars, walkVars, parseVars, xmlVars>>

NextSha1 == Sha1Visit \/ Sha1Finish

SpecSha1 == InitSha1 /\ [][NextSha1]_vars

-----------------------------------------------------------------------------
(* Specification SpecWalk: one call pom_deps(w_target), one loop iteration  *)
(* or one return per step; the queries answer from build_graph             *)

InitWalk ==
  /\ MainIdle
  /\ ParseIdle /\ Sha1Idle /\ XmlIdle
  /\ version = "1.0" /\ workspace = <<>>
  /\ build_graph \in BuildGraphs(WalkEdges, MaxWalkEdges)
  /\ w_target \in {CoreTarget, GwtTarget}
  /\ w_stack = <<>>
  /\ w_pc = "call"
  /\ w_result = {}

WalkUnchanged ==
  /\ UNCHANGED <<w_target, version>>
  /\ UNCHANGED <<mainVars, parseVars, sha1Vars, xmlVars>>

\* the call pom_deps(w_target): its frame queries deps_of
WalkCall ==
  /\ w_pc = "call"
  /\ w_stack' = <<Frame(w_target)>>
  /\ w_pc' = "walking"
  /\ UNCHANGED w_result
  /\ WalkUnchanged

\* one iteration of the for loop over deps_of(label) for a dep that is the
\* JDK (continue) or no alias (added)
WalkDep ==
  /\ w_pc = "walking"
  /\ LET top == w_stack[Len(w_stack)]
     IN  /\ top.exports = {}
         /\ \E dep \in top.deps :
              /\ IsLocalJdk(dep) \/ ~IsAlias(dep)
              /\ w_stack' = WithTop(w_stack,
                   [top EXCEPT !.deps = @ \ {dep},
                               !.acc = IF IsLocalJdk(dep) THEN @
                                       ELSE @ \cup {dep}])
  /\ UNCHANGED <<w_pc, w_result>>
  /\ WalkUnchanged

\* one iteration of the for loop for an alias dep: exports_for is queried
WalkAlias ==
  /\ w_pc = "walking"
  /\ LET top == w_stack[Len(w_stack)]
     IN  /\ top.exports = {}
         /\ \E dep \in top.deps :
              /\ ~IsLocalJdk(dep) /\ IsAlias(dep)
              /\ w_stack' = WithTop(w_stack,
                   [top EXCEPT !.deps = @ \ {dep},
                               !.exports = exports_for(dep)])
  /\ UNCHANGED <<w_pc, w_result>>
  /\ WalkUnchanged

\* one iteration of the inner loop: the export is added and pom_deps(export)
\* is called
WalkExport ==
  /\ w_pc = "walking"
  /\ Len(w_stack) < RecursionLimit
  /\ LET top == w_stack[Len(w_stack)]
     IN  \E export \in top.exports :
           w_stack' = Append(
             WithTop(w_stack, [top EXCEPT !.exports = @ \ {export},
                                          !.acc = @ \cup {export}]),
             Frame(export))
  /\ UNCHANGED <<w_pc, w_result>>
  /\ WalkUnchanged

\* the call pom_deps(export) passes the recursion limit: RuntimeError
\* unwinds every frame
WalkOverflow ==
  /\ w_pc = "walking"
  /\ Len(w_stack) >= RecursionLimit
  /\ w_stack[Len(w_stack)].exports # {}
  /\ w_pc' = "overflow"
  /\ w_stack' = <<>>
  /\ UNCHANGED w_result
  /\ WalkUnchanged

\* return accumulated_deps: the caller's update(...), or the result of the
\* outermost call
WalkReturn ==
  /\ w_pc = "walking"
  /\ LET top == w_stack[Len(w_stack)]
         n   == Len(w_stack)
     IN  /\ top.deps = {} /\ top.exports = {}
         /\ IF n = 1
            THEN /\ w_result' = top.acc
                 /\ w_pc' = "returned"
                 /\ w_stack' = <<>>
            ELSE /\ w_stack' = [i \in 1..(n - 1) |->
                                  IF i = n - 1
                                  THEN [w_stack[i] EXCEPT
                                          !.acc = @ \cup top.acc]
                                  ELSE w_stack[i]]
                 /\ UNCHANGED <<w_pc, w_result>>
  /\ WalkUnchanged

NextWalk ==
  \/ WalkCall \/ WalkDep \/ WalkAlias \/ WalkExport \/ WalkOverflow
  \/ WalkReturn

\* the interpreter runs the call until it returns or raises
SpecWalk == InitWalk /\ [][NextWalk]_vars /\ WF_vars(NextWalk)

\* the two models of pom_deps agree
WalkAgreesWithPomDeps ==
  /\ w_pc = "returned" =>
       /\ pom_deps(w_target).err = ""
       /\ pom_deps(w_target).val = w_result
  /\ w_pc = "overflow" => pom_deps(w_target).err = "RuntimeError"

-----------------------------------------------------------------------------
(* Properties of the WORKSPACE visitors *)

\* positions of the maven_jar statements of the file
MavenJarPositions ==
  {i \in 1..Len(workspace) : workspace[i].func = "maven_jar"}

\* rule carries the keyword arg
HasKeyword(rule, arg) ==
  \E k \in 1..Len(rule.keywords) : rule.keywords[k].arg = arg

\* the value of the keyword arg of rule
KeywordValue(rule, arg) ==
  rule.keywords[CHOOSE k \in 1..Len(rule.keywords) :
                  rule.keywords[k].arg = arg].value

\* the label the parser synthesizes for a declared name
LabelOfName(name) == "@" \o name \o "//jar:jar"

\* positions of the maven_jar statements that carry an artifact keyword
WithArtifact ==
  {i \in MavenJarPositions : HasKeyword(workspace[i], "artifact")}

\* positions of the maven_jar statements without a sha1 keyword
LacksSha1 == {i \in MavenJarPositions : ~HasKeyword(workspace[i], "sha1")}

\* the names of the statements without sha1 among the first n, in file order
RECURSIVE NamesLackingSha1(_)
NamesLackingSha1(n) ==
  IF n = 0 THEN <<>>
  ELSE IF n \in LacksSha1
  THEN Append(NamesLackingSha1(n - 1), KeywordValue(workspace[n], "name"))
  ELSE NamesLackingSha1(n - 1)

\* C4: when maven_artifacts has returned, the mapping has a key
\* '@<name>//jar:jar' exactly for the maven_jar declarations that carry an
\* artifact keyword, mapped to that artifact (of the last such declaration
\* of the name); a declaration without artifact adds no key.
C4_MappingOmitsDeclarationsWithoutArtifact ==
  p_pc = "returned" =>
    /\ DOMAIN p_artifacts =
         {LabelOfName(KeywordValue(workspace[i], "name")) : i \in WithArtifact}
    /\ \A i \in WithArtifact :
         (\A j \in WithArtifact :
            j > i => KeywordValue(workspace[j], "name")
                       # KeywordValue(workspace[i], "name"))
         => p_artifacts[LabelOfName(KeywordValue(workspace[i], "name"))]
              = KeywordValue(workspace[i], "artifact")

\* C6: the checker fails if and only if some maven_jar declaration lacks a
\* sha1 keyword, and then its message lists the names of exactly those
\* declarations, once each and in file order, wherever the sha1 keyword
\* stands among the keywords of the others.
C6_CheckerFailsExactlyOnMissingSha1 ==
  s_pc \in {"passed", "failed", "error"} =>
    /\ (s_pc = "passed") <=> (LacksSha1 = {})
    /\ missing_sha1 = NamesLackingSha1(Len(workspace))
    /\ LacksSha1 # {} =>
         /\ s_pc = "failed"
         /\ s_message = Join(", ", NamesLackingSha1(Len(workspace)))
                          \o " did not specify a sha1"

\* C6 witness: the test failed on a file that holds a declaration without
\* sha1 and a declaration whose sha1 follows its name
C6_Witness ==
  /\ s_pc = "failed"
  /\ \E i, j \in MavenJarPositions :
       /\ i \in LacksSha1
       /\ j \notin LacksSha1
       /\ workspace[j].keywords[1].arg = "name"

-----------------------------------------------------------------------------
(* Properties of xml_formatting.py *)

\* the tags of a rendered <dependency> block
TagsOf(block) == {block[i].tag : i \in 1..Len(block)}

\* number of colon-separated fields of a coordinate
FieldCount(coordinate) == CountColons(coordinate) + 1

\* C5: maven_dependency_xml renders every coordinate of 3 to 5 fields
\* without error: 3 fields give groupId, artifactId and version and neither
\* type nor classifier, 4 or 5 fields give a block with type and classifier.
C5_EveryCoordinateRenders ==
  x_pc = "dependency" =>
    /\ FieldCount(artifact_string) \in 3..5 => x_out.err = ""
    /\ (FieldCount(artifact_string) = 3 /\ x_out.err = "") =>
         TagsOf(x_out.val) = {"groupId", "artifactId", "version"}
    /\ (FieldCount(artifact_string) \in {4, 5} /\ x_out.err = "") =>
         {"type", "classifier"} \subseteq TagsOf(x_out.val)

\* the manual dependencies of the metadata argument
ManualDependencies == Get(metadata, "manual_dependencies", <<>>)

\* C7 as claimed: the descriptor generate_pom renders carries the artifact
\* id of the metadata record and the version passed as the version
\* argument, and one <dependency> block per element of deps and per manual
\* dependency.
C7_DescriptorCarriesMetadataArtifactAndVersionArgument ==
  (x_pc = "pom" /\ x_out.err = "") =>
    /\ x_out.val.artifact = metadata["artifact"]
    /\ x_out.val.version = version
    /\ Len(x_out.val.deps) = Len(deps) + Len(ManualDependencies)

\* C7 amended: generate_pom returns a descriptor exactly when its coordinate
\* has 3 fields and every dependency, manual ones included, has 3 or 5; the
\* descriptor's artifactId and version are the second and third field of
\* the coordinate argument (the version argument is not used), which are the
\* metadata record's artifact id and the release version when the coordinate
\* is the one main builds from them; it holds one <dependency> block per
\* element of deps and per manual dependency.
C7_DescriptorCarriesFieldsOfCoordinate ==
  x_pc = "pom" =>
    LET all == deps \o ManualDependencies
    IN  /\ (x_out.err = "") <=>
             /\ FieldCount(artifact_string) = 3
             /\ \A i \in 1..Len(all) : FieldCount(all[i]) \in {3, 5}
        /\ x_out.err = "" =>
             /\ x_out.val.artifact = Split(artifact_string)[2]
             /\ x_out.val.version = Split(artifact_string)[3]
             /\ Len(x_out.val.deps) = Len(deps) + Len(ManualDependencies)
             /\ artifact_string = OwnCoordinate(metadata, version) =>
                  /\ x_out.val.artifact = metadata["artifact"]
                  /\ x_out.val.version = version

\* C7 witness: a descriptor rendered from a coordinate that names another
\* artifact and version than the metadata record and the version argument,
\* with resolved and manual dependencies
C7_Witness ==
  /\ x_pc = "pom" /\ x_out.err = ""
  /\ Split(artifact_string)[2] # metadata["artifact"]
  /\ Split(artifact_string)[3] # version
  /\ Len(deps) > 0 /\ Len(ManualDependencies) > 0
  /\ Len(x_out.val.deps) = Len(deps) + Len(ManualDependencies)

-----------------------------------------------------------------------------
(* Properties of pom_deps *)

\* the prefixes of aggregation and alias targets
HasAliasPrefix(label) ==
  \/ SubSeq(label, 1, 3) = "//:"
  \/ SubSeq(label, 1, 14) = "//third_party:"

\* the labels pom_deps(label) calls itself with: the exports of the direct
\* dependencies of label that carry an alias prefix
RecursesInto(label) ==
  UNION {exports_for(d) : d \in {a \in deps_of(label) : HasAliasPrefix(a)}}

\* the labels reached from the set seen by one or more such steps
RECURSIVE ReachedFrom(_)
ReachedFrom(seen) ==
  LET more == seen \cup UNION {RecursesInto(l) : l \in seen}
  IN  IF more = seen THEN seen ELSE ReachedFrom(more)

\* the arguments of all calls pom_deps(target) leads to
CallsFrom(target) == ReachedFrom({target})

\* a call made from target reaches itself again
ReachesCycle(target) ==
  \E l \in CallsFrom(target) : l \in ReachedFrom(RecursesInto(l))

\* C9: the set pom_deps returns holds no label that starts with
\* '@local_jdk//:', whether the JDK label is a direct dependency or an
\* exported label of an alias target.
C9_ClosureHoldsNoJdkLabel ==
  w_pc = "returned" =>
    \A l \in w_result : SubSeq(l, 1, 13) # "@local_jdk//:"

\* C10: pom_deps keeps no visited set. Called on a target from which no
\* label reaches itself by a 'dependency with alias prefix, then export of
\* it' step sequence, it terminates and returns; called on a target that
\* reaches such a cycle, it never returns a result.
C10_ReturnsExactlyWithoutCycle ==
  /\ [](~ReachesCycle(w_target) => <>(w_pc = "returned"))
  /\ [](ReachesCycle(w_target) => w_pc # "returned")

\* C10 witness: the recursion from a target that reaches a cycle has ended
\* in the interpreter's RuntimeError
C10_Witness ==
  /\ w_pc = "overflow"
  /\ ReachesCycle(w_target)

-----------------------------------------------------------------------------
(* Properties of main *)

\* the coordinate a rendered <dependency> block was made from
CoordinateOf(block) == Join(":", [i \in 1..Len(block) |-> block[i].text])

\* the coordinates of the <dependency> blocks of a descriptor, in order
CoordinatesIn(pom) == [i \in 1..Len(pom.deps) |-> CoordinateOf(pom.deps[i])]

\* the coordinate's group is com.google.dagger
InOwnGroup(coordinate) == SubSeq(coordinate, 1, 18) = "com.google.dagger:"

\* the order C3 claims: own group first, then the full strings ascending
BeforeByString(a, b) ==
  IF InOwnGroup(a) # InOwnGroup(b) THEN InOwnGroup(a)
  ELSE a = b \/ StrLess(a, b)

\* the order of the comparator: own group first, then the lists of fields
\* ascending
BeforeByFields(a, b) ==
  IF InOwnGroup(a) # InOwnGroup(b) THEN InOwnGroup(a)
  ELSE a = b \/ ListLess(Split(a), Split(b))

\* the last loop iteration wrote its descriptor
Wrote ==
  /\ status \in {"running", "done"}
  /\ pos > 0

\* the descriptor the last loop iteration wrote
LastPom == files[pom_file][1]

\* the manual dependencies of the target of the last loop iteration
LastManual ==
  Get(METADATA[argv_targets[pos]], "manual_dependencies", <<>>)

\* C1: when the resolution of a target's closure raises
\* UnknownDependencyException, no file '<artifact-id>.pom.xml' of that target
\* has been created or truncated.
C1_NoFileOnUnknownDependency ==
  (status = "failed" /\ error = "UnknownDependencyException") =>
    PomFileName(METADATA[argv_targets[pos]]) \notin DOMAIN files

\* C2: no written descriptor holds the same dependency coordinate twice.
C2_NoCoordinateTwice ==
  Wrote =>
    \A i, j \in 1..Len(LastPom.deps) :
      i # j => LastPom.deps[i] # LastPom.deps[j]

\* C3 as claimed: in a written descriptor every com.google.dagger
\* coordinate precedes every other one, and within the two classes the
\* coordinates ascend as strings, manual dependencies included.
C3_BlocksSortedByFullString ==
  Wrote =>
    \A i, j \in 1..Len(LastPom.deps) :
      i < j => BeforeByString(CoordinatesIn(LastPom)[i],
                              CoordinatesIn(LastPom)[j])

\* C3 amended: in a written descriptor the blocks of the resolved closure
\* come first, every com.google.dagger coordinate before every other one and
\* within the two classes ascending by the list of colon-separated fields
\* (group, then artifact, then version); the target's manual dependencies
\* follow them in the order METADATA lists them.
C3_ResolvedSortedByFieldsThenManual ==
  Wrote =>
    LET cs == CoordinatesIn(LastPom)
        n  == Len(cs) - Len(LastManual)
    IN  /\ n >= 0
        /\ \A i, j \in 1..n : i < j => BeforeByFields(cs[i], cs[j])
        /\ \A i \in 1..Len(LastManual) : cs[n + i] = LastManual[i]

\* C3 witness: a descriptor with manual dependencies was written whose
\* resolved dependencies stand in the order of their fields and against
\* the order of their strings
C3_Witness ==
  /\ Wrote
  /\ Len(LastManual) > 0
  /\ Len(LastPom.deps) >= Len(LastManual) + 2
  /\ StrLess(CoordinatesIn(LastPom)[2], CoordinatesIn(LastPom)[1])

\* C8: when the k-th target fails, the descriptors of the targets before it
\* are on disk and complete, and no file of a target that only comes after
\* it exists.
C8_FailureKeepsEarlierAndTouchesNoLater ==
  status = "failed" =>
    /\ \A i \in 1..(pos - 1) :
         /\ PomFileName(METADATA[argv_targets[i]]) \in DOMAIN files
         /\ Len(files[PomFileName(METADATA[argv_targets[i]])]) = 1
    /\ \A j \in (pos + 1)..Len(argv_targets) :
         (/\ argv_targets[j] \in DOMAIN METADATA
          /\ \A i \in 1..pos : argv_targets[i] # argv_targets[j])
         => PomFileName(METADATA[argv_targets[j]]) \notin DOMAIN files

====
